---- MODULE Spec2Model ----
(***************************************************************************)
(* Model of smart-precommit-setup.js: the technology-stack detector, the   *)
(* rule composer (generateConfiguration), the renderer (generateYAMLConfig,*)
(* generateRequirementsFile) and the run() driver of                       *)
(* UniversalSmartPreCommitSetup.                                           *)
(*                                                                         *)
(* An invocation of the script is one pass of pc from "run" to a terminal  *)
(* position.  Spec is one invocation in a project directory; SpecRerun     *)
(* lets the script be invoked a second time in the same directory once the *)
(* first invocation has ended; SpecInterrupt lets the invocation be        *)
(* interrupted at a prompt; SpecConcurrent interleaves two invocations.    *)
(* SpecHelpers applies the traversal and manifest helpers that run() does  *)
(* not reach (getAllFiles, findMatchingFiles, scanDependencies) to nested  *)
(* directories and manifests.                                              *)
(***************************************************************************)
EXTENDS Integers, Sequences, FiniteSets, TLC

VARIABLES
    tree,           \* paths present in the project directory (outputs excluded)
    pkgDeps,        \* dependency names declared by package.json
    isWindows,      \* process.platform === "win32"
    fs,             \* content of the two output files
    \* per invocation:
    pc,             \* position in run()
    argv,           \* this.detectOnly, this.isInteractive
    detectedTech,   \* this.detectedTech, in insertion order
    securityLevel,  \* argument of generateConfiguration
    finalConfig,    \* local of generateConfiguration
    yamlContent,    \* local of generateConfiguration
    seen,           \* the directory entries that existed when detection ran
    written,        \* the output files the invocation has written
    exitCode,       \* exit status
    left,           \* the output files as they were when the invocation ended
    \* for the helpers that run() does not reach:
    disk,           \* a nested directory, the failing call and the manifests
    call            \* the helper that was called and what it returned

vars == <<tree, pkgDeps, isWindows, fs, pc, argv, detectedTech,
          securityLevel, finalConfig, yamlContent, seen, written, exitCode,
          left, disk, call>>

----------------------------------------------------------------------------
(* Bounds *)

\* Largest number of project files in the directory.
MaxFiles == 3

----------------------------------------------------------------------------
(* The project directory *)

CONFIG_FILE == ".pre-commit-config.yaml"
REQUIREMENTS_FILE == "requirements.dev.assist.txt"

\* One line of a text file: indentation, key and the values after it.
Line(indent, key, value) == [indent |-> indent, key |-> key, value |-> value]

\* A file that does not exist, and a file left by something else.
Absent == [exists |-> FALSE, text |-> <<>>]
Foreign == [exists |-> TRUE, text |-> <<Line(0, "# not generated", <<>>)>>]
File(text) == [exists |-> TRUE, text |-> text]

\* Paths a project directory is drawn from; dir is the containing
\* directory, suffix the text after the last dot of the entry name and
\* hidden tells whether the entry name starts with a dot.
ProjectFiles ==
    { "requirements.txt", "package.json", "tsconfig.json", "schema.sql",
      "Dockerfile", "README.md" }

EntryDir(path) == "."

EntrySuffix(path) ==
    CASE path = "requirements.txt" -> "txt"
      [] path = "package.json" -> "json"
      [] path = "tsconfig.json" -> "json"
      [] path = "schema.sql" -> "sql"
      [] path = "README.md" -> "md"
      [] path = REQUIREMENTS_FILE -> "txt"
      [] path = CONFIG_FILE -> "yaml"
      [] OTHER -> ""

EntryHidden(path) == path = CONFIG_FILE

\* Dependencies a package.json may declare.
Dependencies == {"react"}

\* Every entry of the directory: the project files and the output files
\* that exist.
Entries(t, files) ==
    t \cup {p \in {CONFIG_FILE, REQUIREMENTS_FILE} :
                /\ p = CONFIG_FILE => files.config.exists
                /\ p = REQUIREMENTS_FILE => files.requirements.exists}

existsSync(path, t, files) == path \in Entries(t, files)

----------------------------------------------------------------------------
(* Signal scanner and technology classifier *)

universalChecks == <<
    [files |-> <<"client/package.json">>, patterns |-> <<>>, tech |-> "react-frontend"],
    [files |-> <<"server/package.json">>, patterns |-> <<>>, tech |-> "node-backend"],
    [files |-> <<"package.json">>, patterns |-> <<>>, tech |-> "nodejs"],
    [files |-> <<"vite.config.js", "vite.config.mjs", "client/vite.config.mjs">>, patterns |-> <<>>, tech |-> "vite"],
    [files |-> <<"tsconfig.json", "client/tsconfig.json">>, patterns |-> <<>>, tech |-> "typescript"],
    [files |-> <<"next.config.js">>, patterns |-> <<>>, tech |-> "nextjs"],
    [files |-> <<"nuxt.config.js", "nuxt.config.ts">>, patterns |-> <<>>, tech |-> "nuxtjs"],
    [files |-> <<"angular.json">>, patterns |-> <<>>, tech |-> "angular"],
    [files |-> <<"vue.config.js">>, patterns |-> <<>>, tech |-> "vuejs"],
    [files |-> <<"svelte.config.js">>, patterns |-> <<>>, tech |-> "svelte"],
    [files |-> <<>>, patterns |-> <<"*.sql">>, tech |-> "sql"],
    [files |-> <<"developmentQueries.sql", "prod-scripts.sql">>, patterns |-> <<>>, tech |-> "sql-enterprise"],
    [files |-> <<"prisma/schema.prisma">>, patterns |-> <<>>, tech |-> "prisma"],
    [files |-> <<"knexfile.js">>, patterns |-> <<>>, tech |-> "knex"],
    [files |-> <<"sequelize.config.js">>, patterns |-> <<>>, tech |-> "sequelize"],
    [files |-> <<"requirements.txt", "requirements.dev.assist.txt">>, patterns |-> <<>>, tech |-> "python"],
    [files |-> <<"pyproject.toml">>, patterns |-> <<>>, tech |-> "python-modern"],
    [files |-> <<"Pipfile">>, patterns |-> <<>>, tech |-> "pipenv"],
    [files |-> <<"poetry.lock">>, patterns |-> <<>>, tech |-> "poetry"],
    [files |-> <<"environment.yml">>, patterns |-> <<>>, tech |-> "conda"],
    [files |-> <<"jupyter">>, patterns |-> <<>>, tech |-> "jupyter"],
    [files |-> <<>>, patterns |-> <<"*.py">>, tech |-> "python"],
    [files |-> <<>>, patterns |-> <<"*.ipynb">>, tech |-> "jupyter"],
    [files |-> <<>>, patterns |-> <<"*.csproj">>, tech |-> "dotnet"],
    [files |-> <<>>, patterns |-> <<"*.sln">>, tech |-> "dotnet-solution"],
    [files |-> <<"appsettings.json">>, patterns |-> <<>>, tech |-> "aspnet"],
    [files |-> <<"global.json">>, patterns |-> <<>>, tech |-> "dotnet-sdk"],
    [files |-> <<"pom.xml">>, patterns |-> <<>>, tech |-> "maven"],
    [files |-> <<"build.gradle", "build.gradle.kts">>, patterns |-> <<>>, tech |-> "gradle"],
    [files |-> <<"application.properties">>, patterns |-> <<>>, tech |-> "spring"],
    [files |-> <<>>, patterns |-> <<"*.java">>, tech |-> "java"],
    [files |-> <<>>, patterns |-> <<"*.kt">>, tech |-> "kotlin"],
    [files |-> <<>>, patterns |-> <<"*.scala">>, tech |-> "scala"],
    [files |-> <<"ios/Podfile">>, patterns |-> <<>>, tech |-> "react-native"],
    [files |-> <<"android/build.gradle">>, patterns |-> <<>>, tech |-> "react-native"],
    [files |-> <<"flutter/pubspec.yaml">>, patterns |-> <<>>, tech |-> "flutter"],
    [files |-> <<"capacitor.config.ts">>, patterns |-> <<>>, tech |-> "ionic"],
    [files |-> <<"Dockerfile">>, patterns |-> <<>>, tech |-> "docker"],
    [files |-> <<"docker-compose.yml", "docker-compose.yaml">>, patterns |-> <<>>, tech |-> "docker-compose"],
    [files |-> <<"kubernetes">>, patterns |-> <<>>, tech |-> "kubernetes"],
    [files |-> <<"helm">>, patterns |-> <<>>, tech |-> "helm"],
    [files |-> <<"terraform">>, patterns |-> <<>>, tech |-> "terraform"],
    [files |-> <<"ansible">>, patterns |-> <<>>, tech |-> "ansible"],
    [files |-> <<>>, patterns |-> <<".github/workflows/*.yml">>, tech |-> "github-actions"],
    [files |-> <<".gitlab-ci.yml">>, patterns |-> <<>>, tech |-> "gitlab-ci"],
    [files |-> <<"azure-pipelines.yml">>, patterns |-> <<>>, tech |-> "azure-devops"],
    [files |-> <<"jenkinsfile">>, patterns |-> <<>>, tech |-> "jenkins"],
    [files |-> <<"jest.config.js", "server/jest.config.js">>, patterns |-> <<>>, tech |-> "jest"],
    [files |-> <<"cypress.config.js">>, patterns |-> <<>>, tech |-> "cypress"],
    [files |-> <<"playwright.config.js">>, patterns |-> <<>>, tech |-> "playwright"],
    [files |-> <<"vitest.config.js">>, patterns |-> <<>>, tech |-> "vitest"],
    [files |-> <<"karma.conf.js">>, patterns |-> <<>>, tech |-> "karma"],
    [files |-> <<"protractor.conf.js">>, patterns |-> <<>>, tech |-> "protractor"],
    [files |-> <<"webpack.config.js">>, patterns |-> <<>>, tech |-> "webpack"],
    [files |-> <<"rollup.config.js">>, patterns |-> <<>>, tech |-> "rollup"],
    [files |-> <<"parcel">>, patterns |-> <<>>, tech |-> "parcel"],
    [files |-> <<"esbuild.config.js">>, patterns |-> <<>>, tech |-> "esbuild"],
    [files |-> <<>>, patterns |-> <<"*.msapp">>, tech |-> "powerapps"],
    [files |-> <<>>, patterns |-> <<"*.pbit", "*.pbix">>, tech |-> "powerbi"],
    [files |-> <<>>, patterns |-> <<"*.flow">>, tech |-> "powerautomate"],
    [files |-> <<"CODEOWNERS">>, patterns |-> <<>>, tech |-> "enterprise-governance"],
    [files |-> <<"sonar-project.properties">>, patterns |-> <<>>, tech |-> "sonarqube"]
>>

\* pattern.split("*")[0] || ".", without the trailing separator
PatternDir(pattern) ==
    IF pattern = ".github/workflows/*.yml" THEN ".github/workflows" ELSE "."

\* pattern.split(".").pop()
PatternExtension(pattern) ==
    CASE pattern = "*.csproj" -> "csproj"
      [] pattern = "*.flow" -> "flow"
      [] pattern = "*.ipynb" -> "ipynb"
      [] pattern = "*.java" -> "java"
      [] pattern = "*.kt" -> "kt"
      [] pattern = "*.msapp" -> "msapp"
      [] pattern = "*.pbit" -> "pbit"
      [] pattern = "*.pbix" -> "pbix"
      [] pattern = "*.py" -> "py"
      [] pattern = "*.scala" -> "scala"
      [] pattern = "*.sln" -> "sln"
      [] pattern = "*.sql" -> "sql"
      [] pattern = ".github/workflows/*.yml" -> "yml"

\* fs.readdirSync(dir)
readdirSync(dir, t, files) ==
    {p \in Entries(t, files) : EntryDir(p) = dir}

hasFilesWithExtension(dir, ext, t, files) ==
    \E file \in readdirSync(dir, t, files) : EntrySuffix(file) = ext

simplePatternCheck(pattern, t, files) ==
    LET dir == PatternDir(pattern)
        extension == PatternExtension(pattern)
    IN  /\ dir = "." \/ \E p \in Entries(t, files) : EntryDir(p) = dir
        /\ extension # "" /\ extension # "*"
        /\ hasFilesWithExtension(dir, extension, t, files)

\* glob.sync(pattern).length > 0: a wildcard does not match a leading dot.
globSync(pattern, t, files) ==
    \E file \in readdirSync(PatternDir(pattern), t, files) :
        /\ EntrySuffix(file) = PatternExtension(pattern)
        /\ ~EntryHidden(file)

CheckFound(check, t, files, glob) ==
    LET byFile ==
            \E i \in DOMAIN check.files : existsSync(check.files[i], t, files)
        byPattern ==
            \E i \in DOMAIN check.patterns :
                IF glob THEN globSync(check.patterns[i], t, files)
                ELSE simplePatternCheck(check.patterns[i], t, files)
    IN  byFile \/ byPattern

InSeq(x, seq) == \E i \in DOMAIN seq : seq[i] = x

\* Variant: adding a tag replaces the tags collected so far.
SetAdd_replace(seq, x) == <<x>>

\* Set.prototype.add on an insertion-ordered set.
SetAdd(seq, x) == IF InSeq(x, seq) THEN seq ELSE Append(seq, x)

RECURSIVE ScanChecks(_, _, _, _, _)
ScanChecks(i, acc, t, files, glob) ==
    IF i > Len(universalChecks) THEN acc
    ELSE ScanChecks(i + 1,
                    IF CheckFound(universalChecks[i], t, files, glob)
                    THEN SetAdd(acc, universalChecks[i].tech) ELSE acc,
                    t, files, glob)

\* advancedContentAnalysis is defined twice in the class body and the
\* second definition is the method: it prints the tags and adds none.  The
\* dependencies of package.json are not read.
advancedContentAnalysis(tech, t, files, deps) == tech

\* Variant: no generic tag is substituted for an empty result.
detectTechnologies_noFallback(t, files, deps, glob) ==
    advancedContentAnalysis(ScanChecks(1, <<>>, t, files, glob), t, files, deps)

detectTechnologies(t, files, deps, glob) ==
    LET scanned == ScanChecks(1, <<>>, t, files, glob)
        analysed == advancedContentAnalysis(scanned, t, files, deps)
    IN  IF Len(analysed) = 0 THEN <<"generic">> ELSE analysed

----------------------------------------------------------------------------
(* Recursive traversal helpers and manifest readers *)

\* A directory tree below the directory a traversal starts in: each node is
\* its path from the start directory, as the sequence of its names.
DirNodes ==
    { <<".git">>, <<"lib">>, <<"lib", "pkg">>, <<"lib", "pkg", "sub">>,
      <<"node_modules">>, <<"venv">> }

FileNodes ==
    { <<".git", "h.py">>, <<"a.py">>, <<"lib", "b.py">>,
      <<"lib", "pkg", "c.py">>, <<"lib", "pkg", "sub", "d.py">>,
      <<"node_modules", "m.py">>, <<"venv", "v.py">> }

\* The names of the nodes in the order fs.readdirSync lists them.
NameOrder ==
    << ".git", "a.py", "b.py", "c.py", "d.py", "h.py", "lib", "m.py",
       "node_modules", "pkg", "sub", "v.py", "venv" >>

Parent(node) == SubSeq(node, 1, Len(node) - 1)

\* The trees of the model: a node is present only inside a present directory.
Subtrees ==
    {t \in SUBSET (DirNodes \cup FileNodes) :
         \A node \in t : Len(node) > 1 => Parent(node) \in t}

\* The one file-system call that fails, if any: op is "readdir" or "stat".
NoFailure == [op |-> "none", path |-> <<>>]

Failure(op, path) == [op |-> op, path |-> path]

Throws(op, path, bad) == bad.op = op /\ bad.path = path

\* fs.readdirSync(dir): the names of the entries of dir.
Listing(dir, t) ==
    SelectSeq(NameOrder, LAMBDA name : Append(dir, name) \in t)

\* What a traversal has collected: the files pushed and the directories
\* listed, in order.
Collected(files, reads) == [files |-> files, reads |-> reads]

\* getAllFiles(dir, files): the try block holds the whole forEach, so an
\* exception of statSync ends the loop over dir; what was pushed stays.
RECURSIVE getAllFiles(_, _, _, _)
RECURSIVE getAllFilesItems(_, _, _, _, _, _)
getAllFilesItems(dir, items, i, acc, t, bad) ==
    IF i > Len(items) THEN acc
    ELSE LET fullPath == Append(dir, items[i])
         IN  IF Throws("stat", fullPath, bad) THEN acc
             ELSE IF fullPath \in DirNodes
             THEN getAllFilesItems(dir, items, i + 1,
                      getAllFiles(fullPath, acc, t, bad), t, bad)
             ELSE getAllFilesItems(dir, items, i + 1,
                      Collected(Append(acc.files, fullPath), acc.reads),
                      t, bad)

getAllFiles(dir, acc, t, bad) ==
    IF Throws("readdir", dir, bad) THEN acc
    ELSE getAllFilesItems(dir, Listing(dir, t), 1,
             Collected(acc.files, Append(acc.reads, dir)), t, bad)

\* maxDepth as hasFiles passes it.
HasFilesMaxDepth == 3

\* The double-wildcard pattern of the model and its regular expression
\* .*/[^/]*.py tested on the path joined with "/": a separator, then a name
\* that ends in a character followed by "py".
DoubleWildcard == "**/*.py"

RegexTest(pattern, path) ==
    /\ pattern = DoubleWildcard
    /\ Len(path) >= 2
    /\ path[Len(path)] \in {"b.py", "c.py", "d.py", "h.py", "m.py", "v.py"}

\* entry.name.startsWith(".") || entry.name === "node_modules"
Skipped(name) == name \in {".git", "node_modules"}

\* Variant: the depth test lets one more level through.
DepthReached_oneDeeper(currentDepth, maxDepth) == currentDepth > maxDepth

\* if (currentDepth >= maxDepth) return [];
DepthReached(currentDepth, maxDepth) == currentDepth >= maxDepth

\* findMatchingFiles(dir, pattern, maxDepth, currentDepth): entries come
\* from readdirSync with withFileTypes, so no stat call is made.
RECURSIVE findMatchingFiles(_, _, _, _, _, _)
RECURSIVE findMatchingEntries(_, _, _, _, _, _, _, _)
findMatchingEntries(dir, entries, i, pattern, maxDepth, depth, t, bad) ==
    IF i > Len(entries) THEN Collected(<<>>, <<>>)
    ELSE LET fullPath == Append(dir, entries[i])
             rest == findMatchingEntries(dir, entries, i + 1, pattern,
                                         maxDepth, depth, t, bad)
             here == IF Skipped(entries[i]) THEN Collected(<<>>, <<>>)
                     ELSE IF fullPath \in DirNodes
                     THEN findMatchingFiles(fullPath, pattern, maxDepth,
                                            depth + 1, t, bad)
                     ELSE IF RegexTest(pattern, fullPath)
                     THEN Collected(<<fullPath>>, <<>>)
                     ELSE Collected(<<>>, <<>>)
         IN  Collected(here.files \o rest.files, here.reads \o rest.reads)

findMatchingFiles(dir, pattern, maxDepth, currentDepth, t, bad) ==
    IF DepthReached(currentDepth, maxDepth) THEN Collected(<<>>, <<>>)
    ELSE IF Throws("readdir", dir, bad) THEN Collected(<<>>, <<>>)
    ELSE LET found == findMatchingEntries(dir, Listing(dir, t), 1, pattern,
                                          maxDepth, currentDepth, t, bad)
         IN  Collected(found.files, <<dir>> \o found.reads)

\* The manifests scanDependencies and readPackageJson read, in order.
ManifestPaths == <<"package.json", "client/package.json", "server/package.json">>

\* A manifest: missing, present but not valid JSON, or present with the
\* names of its dependencies and devDependencies.
NoManifest == [exists |-> FALSE, valid |-> FALSE, deps |-> {}]

Malformed == [exists |-> TRUE, valid |-> FALSE, deps |-> {}]

Manifest(deps) == [exists |-> TRUE, valid |-> TRUE, deps |-> deps]

\* Dependency names a manifest of the model may declare.
ManifestDependencies == {"react", "express"}

ManifestStates ==
    {NoManifest, Malformed} \cup {Manifest(d) : d \in SUBSET ManifestDependencies}

\* The body of the try block of scanDependencies for one manifest:
\* JSON.parse throws on a malformed file and the catch ignores it.
scanManifest(tech, manifest) ==
    IF manifest.exists /\ manifest.valid
    THEN LET withReact == IF "react" \in manifest.deps
                          THEN SetAdd(tech, "react") ELSE tech
         IN  IF "express" \in manifest.deps
             THEN SetAdd(withReact, "express") ELSE withReact
    ELSE tech

\* Variant: one try block around the whole loop, so the first malformed
\* manifest ends the scan.
scanDependencies_abortsOnError(tech, manifests) ==
    LET first == manifests[ManifestPaths[1]]
        second == manifests[ManifestPaths[2]]
        third == manifests[ManifestPaths[3]]
        afterFirst == scanManifest(tech, first)
        afterSecond == scanManifest(afterFirst, second)
    IN  IF first = Malformed THEN tech
        ELSE IF second = Malformed THEN afterFirst
        ELSE scanManifest(afterSecond, third)

\* scanDependencies(): packageFiles.forEach with a try block per file.
scanDependencies(tech, manifests) ==
    scanManifest(scanManifest(scanManifest(tech, manifests[ManifestPaths[1]]),
                              manifests[ManifestPaths[2]]),
                 manifests[ManifestPaths[3]])

\* readPackageJson(): the names of the merged dependencies of the manifests
\* that parse.
readPackageJson(manifests) ==
    UNION {manifests[ManifestPaths[i]].deps : i \in DOMAIN ManifestPaths}

----------------------------------------------------------------------------
(* Numbers as JavaScript sees them: parseInt may yield NaN *)

NaN == [nan |-> TRUE, n |-> 0]
Num(n) == [nan |-> FALSE, n |-> n]

\* a >= k, false when a is NaN
GreaterEq(a, k) == ~a.nan /\ a.n >= k

Digits == {"0", "1", "2", "3", "4", "5", "6", "7", "8", "9"}

DigitValue(c) ==
    CASE c = "0" -> 0 [] c = "1" -> 1 [] c = "2" -> 2 [] c = "3" -> 3
      [] c = "4" -> 4 [] c = "5" -> 5 [] c = "6" -> 6 [] c = "7" -> 7
      [] c = "8" -> 8 [] c = "9" -> 9

RECURSIVE ParseDigits(_, _, _)
ParseDigits(chars, i, acc) ==
    IF i > Len(chars) \/ chars[i] \notin Digits THEN acc
    ELSE ParseDigits(chars, i + 1, 10 * acc + DigitValue(chars[i]))

\* parseInt of a trimmed answer, given as its sequence of characters: the
\* longest prefix of digits, NaN when there is none.
parseInt(chars) ==
    IF Len(chars) = 0 \/ chars[1] \notin Digits THEN NaN
    ELSE Num(ParseDigits(chars, 1, 0))

----------------------------------------------------------------------------
(* Platform command variants *)

generateWindowsCommand(commandType, pattern, successMsg, failMsg) ==
    CASE commandType = "grep" ->
            <<"powershell", "grep", pattern, failMsg, successMsg>>
      [] commandType = "js-files" ->
            <<"powershell", "js-files", pattern, failMsg, successMsg>>
      [] commandType = "package-scan" ->
            <<"powershell", "package-scan", successMsg>>
      [] commandType = "enterprise-patterns" ->
            <<"powershell", "enterprise-patterns",
              "=== ENTERPRISE SECURITY PATTERNS DETECTED ===",
              "Enterprise patterns check passed - no sensitive patterns found">>
      [] commandType = "emoji-detector" ->
            <<"powershell", "emoji-detector",
              "=== EMOJI/AI CONTENT DETECTED ===",
              "No emojis found - content appears human-generated">>
      [] commandType = "encoding-cipher" ->
            <<"powershell", "encoding-cipher",
              "=== ENCODED/CIPHER CONTENT DETECTED ===",
              "No suspicious encoded content found">>
      [] commandType = "digital-signatures" ->
            <<"powershell", "digital-signatures",
              "=== DIGITAL CERTIFICATES/SIGNATURES DETECTED ===",
              "No digital signatures found">>
      [] commandType = "suspicious-patterns" ->
            <<"powershell", "suspicious-patterns",
              "=== SUSPICIOUS EXECUTION PATTERNS DETECTED ===",
              "No suspicious execution patterns found">>
      [] OTHER -> <<"powershell", "echo", successMsg>>

generateUnixCommand(commandType, pattern, successMsg, failMsg) ==
    CASE commandType = "grep" ->
            <<"bash", "grep", pattern, failMsg, successMsg>>
      [] commandType = "js-files" ->
            <<"bash", "js-files", pattern, failMsg, successMsg>>
      [] commandType = "package-scan" ->
            <<"bash", "package-scan", successMsg>>
      [] commandType = "enterprise-patterns" ->
            <<"bash", "enterprise-patterns",
              "=== SCANNING FOR ENTERPRISE SECURITY PATTERNS ===",
              "Enterprise patterns check passed - no sensitive patterns found">>
      [] commandType = "emoji-detector" ->
            <<"bash", "emoji-detector",
              "=== SCANNING FOR EMOJI/AI CONTENT ===",
              "No emojis found - content appears human-generated">>
      [] commandType = "encoding-cipher" ->
            <<"bash", "encoding-cipher",
              "=== SCANNING FOR ENCODED/CIPHER CONTENT ===",
              "No suspicious encoded content found">>
      [] commandType = "digital-signatures" ->
            <<"bash", "digital-signatures",
              "=== SCANNING FOR DIGITAL CERTIFICATES ===",
              "No digital signatures found">>
      [] commandType = "suspicious-patterns" ->
            <<"bash", "suspicious-patterns",
              "=== SCANNING FOR SUSPICIOUS EXECUTION PATTERNS ===",
              "No suspicious execution patterns found">>
      [] OTHER -> <<"bash", "echo", successMsg>>

generateOSSpecificCommand(win, commandType, pattern, successMsg, failMsg) ==
    IF win THEN generateWindowsCommand(commandType, pattern, successMsg, failMsg)
    ELSE generateUnixCommand(commandType, pattern, successMsg, failMsg)

\* What a rendered command matches, read off the command text: the
\* alternatives of its pattern, whether letter case is ignored, the file
\* name globs it is limited to ("*" for every file) and what it leaves
\* out.  An exclusion is recorded by kind: "dir" a directory of that name
\* is not entered, "leaf" an item of that name is dropped, "path" a path
\* containing the text is dropped, "file" a file name glob is dropped.
Excluded(kind, text) == [kind |-> kind, text |-> text]

Matching(patterns, ignoreCase, files, excluded) ==
    [patterns |-> patterns, ignoreCase |-> ignoreCase, files |-> files,
     excluded |-> excluded]

EnterpriseAlternatives ==
    {"@shell\\.com", "@sede\\.com", "password\\s*=", "api[_-]?key\\s*[=:]"}

EmojiAlternatives ==
    {"[1F600-1F64F]", "[1F300-1F5FF]", "[1F680-1F6FF]"}

EncodingAlternatives ==
    {"base64", "btoa", "atob", "-----BEGIN", "-----END",
     "[A-Za-z0-9+/]{40,}="}

SuspiciousAlternatives ==
    {"eval\\(", "exec\\(", "system\\(", "shell_exec", "passthru", "popen",
     "proc_open", "curl_exec", "wget", "powershell", "cmd\\.exe"}

CertificateGlobs ==
    {"*.p12", "*.pfx", "*.pem", "*.crt", "*.cer", "*.key", "*.jks",
     "*.keystore"}

ScriptGlobs == {"*.js", "*.jsx", "*.ts", "*.tsx"}

\* generateWindowsCommand: Select-String and Get-ChildItem -Include ignore
\* letter case unless told otherwise.
windowsMatching(commandType, pattern) ==
    CASE commandType = "js-files" ->
            Matching({pattern}, TRUE, ScriptGlobs,
                     {Excluded("path", "node_modules")})
      [] commandType = "enterprise-patterns" ->
            Matching(EnterpriseAlternatives, TRUE, {"*"},
                     {Excluded("path", "node_modules"),
                      Excluded("path", ".git"),
                      Excluded("file", "README*"),
                      Excluded("file", "*.test.*")})
      [] commandType = "emoji-detector" ->
            Matching(EmojiAlternatives, TRUE, {"*"},
                     {Excluded("leaf", "node_modules"),
                      Excluded("leaf", ".git")})
      [] commandType = "encoding-cipher" ->
            Matching(EncodingAlternatives, TRUE, {"*"},
                     {Excluded("leaf", "node_modules"),
                      Excluded("leaf", ".git")})
      [] commandType = "digital-signatures" ->
            Matching({}, TRUE, CertificateGlobs,
                     {Excluded("path", "node_modules")})
      [] commandType = "suspicious-patterns" ->
            Matching(SuspiciousAlternatives
                         \cup {"file_get_contents.*http"},
                     TRUE, {"*"},
                     {Excluded("leaf", "node_modules"),
                      Excluded("leaf", ".git")})

\* generateUnixCommand: grep and find -name respect letter case unless -i
\* is given.
unixMatching(commandType, pattern) ==
    CASE commandType = "js-files" ->
            Matching({pattern}, FALSE, ScriptGlobs,
                     {Excluded("path", "node_modules")})
      [] commandType = "enterprise-patterns" ->
            Matching(EnterpriseAlternatives, FALSE, {"*"},
                     {Excluded("dir", "node_modules"),
                      Excluded("dir", ".git"),
                      Excluded("file", "README*"),
                      Excluded("file", "*.test.*")})
      [] commandType = "emoji-detector" ->
            Matching(EmojiAlternatives, FALSE, {"*"},
                     {Excluded("dir", "node_modules"),
                      Excluded("dir", ".git")})
      [] commandType = "encoding-cipher" ->
            Matching(EncodingAlternatives, FALSE, {"*"},
                     {Excluded("dir", "node_modules"),
                      Excluded("dir", ".git")})
      [] commandType = "digital-signatures" ->
            Matching({}, FALSE, CertificateGlobs,
                     {Excluded("path", "node_modules")})
      [] commandType = "suspicious-patterns" ->
            Matching(SuspiciousAlternatives
                         \cup {"file_get_contents\\(.*http"},
                     TRUE, {"*"},
                     {Excluded("dir", "node_modules"),
                      Excluded("dir", ".git")})

\* What running a rendered command does, read off the command text: its
\* exit status and whether it prints its success message, given whether
\* the scan has findings.
Outcome(exit, success) == [exit |-> exit, success |-> success]

\* generateWindowsCommand: every scanner ends in
\* `if (...) { ...; exit 1 } else { Write-Host <success> }`; package-scan
\* runs the audit tools and then Write-Host <success> unconditionally, so
\* the status is that of Write-Host.
windowsOutcome(commandType, findings) ==
    CASE commandType = "package-scan" -> Outcome(0, TRUE)
      [] OTHER -> IF findings THEN Outcome(1, FALSE) ELSE Outcome(0, TRUE)

\* generateUnixCommand: every scanner is
\* `<scan> && ... && exit 1 || echo <success>`; package-scan chains the
\* audit tools and echo <success> with &&.
unixOutcome(commandType, findings) ==
    CASE commandType = "package-scan" ->
            IF findings THEN Outcome(1, FALSE) ELSE Outcome(0, TRUE)
      [] OTHER -> IF findings THEN Outcome(1, FALSE) ELSE Outcome(0, TRUE)

----------------------------------------------------------------------------
(* Rule composer *)

LOCAL_REPO == "local"

\* A repo entry; rev is absent for the local repo.
Repo(repo, rev, hooks) == [repo |-> repo, rev |-> rev, hooks |-> hooks]
Local(hooks) == [repo |-> LOCAL_REPO, hooks |-> hooks]

baseSecurity == <<
    Repo("https://github.com/gitleaks/gitleaks", "v8.18.0", <<
        [id |-> "gitleaks", name |-> "Gitleaks - Detect Secrets",
         entry |-> <<"gitleaks detect --verbose --redact --no-git">>,
         language |-> "system"] >>),
    Repo("https://github.com/trufflesecurity/trufflehog", "v3.63.2-rc0", <<
        [id |-> "trufflehog",
         name |-> "TruffleHog - Advanced Secret Detection",
         entry |-> <<"trufflehog git file://./ --only-verified --fail">>,
         language |-> "system"] >>)
>>

enhancedSecurity(win) == <<
    Repo("https://github.com/pre-commit/pre-commit-hooks", "v4.4.0", <<
        [id |-> "detect-private-key", name |-> "Detect Private Keys"],
        [id |-> "check-merge-conflict", name |-> "Check Merge Conflicts"],
        [id |-> "check-added-large-files", name |-> "Check Large Files",
         args |-> <<"--maxkb=1000">>],
        [id |-> "end-of-file-fixer", name |-> "Fix End of Files"],
        [id |-> "trailing-whitespace", name |-> "Trim Trailing Whitespace"] >>),
    Repo("https://github.com/Yelp/detect-secrets", "v1.4.0", <<
        [id |-> "detect-secrets",
         name |-> "Detect Secrets - Advanced Pattern Detection",
         args |-> <<"--baseline", ".secrets.baseline">>,
         exclude |-> "package-lock.json|yarn.lock|poetry.lock"] >>),
    Local(<<
        [id |-> "package-vulnerability-scan",
         name |-> "Package Vulnerability Scanning",
         entry |-> generateOSSpecificCommand(win, "package-scan", "",
                       "Package scan completed", "Vulnerabilities found"),
         language |-> "system",
         pass_filenames |-> FALSE] >>)
>>

maximumSecurity(win) == <<
    Local(<<
        [id |-> "enterprise-patterns",
         name |-> "Enterprise Security Pattern Detection",
         entry |-> generateOSSpecificCommand(win, "enterprise-patterns", "",
                       "Enterprise patterns check passed",
                       "Enterprise security patterns found"),
         language |-> "system"],
        [id |-> "console-log-detector",
         name |-> "Console.log Detection (Production)",
         entry |-> generateOSSpecificCommand(win, "js-files", "console.log",
                       "No console.log found",
                       "console.log found - remove before commit"),
         language |-> "system"],
        [id |-> "emoji-ai-detector",
         name |-> "Emoji/AI Content Detection",
         entry |-> generateOSSpecificCommand(win, "emoji-detector", "",
                       "No emojis found",
                       "Emoji detected - potential AI content"),
         language |-> "system"],
        [id |-> "encoding-cipher-detector",
         name |-> "Encoded/Cipher Content Detection",
         entry |-> generateOSSpecificCommand(win, "encoding-cipher", "",
                       "No encoded content found",
                       "Encoded content detected"),
         language |-> "system"],
        [id |-> "digital-signature-detector",
         name |-> "Digital Signature Detection",
         entry |-> generateOSSpecificCommand(win, "digital-signatures", "",
                       "No digital signatures found",
                       "Digital certificates/signatures found"),
         language |-> "system"],
        [id |-> "suspicious-strings-detector",
         name |-> "Suspicious String Patterns Detection",
         entry |-> generateOSSpecificCommand(win, "suspicious-patterns", "",
                       "No suspicious patterns found",
                       "Suspicious execution patterns found"),
         language |-> "system"] >>)
>>

hasAnyTech(tech, techList) == \E t \in techList : InSeq(t, tech)

\* Variant: prettier is added at every level.
javascriptConfigs_prettierAlways(tech, level) ==
    IF hasAnyTech(tech, {"react-frontend", "nodejs", "typescript", "react",
                         "vuejs", "angular"})
    THEN <<Repo("https://github.com/pre-commit/mirrors-eslint", "v8.50.0", <<
               [id |-> "eslint",
                name |-> "ESLint - JavaScript/TypeScript Linting",
                files |-> "\\.(js|jsx|ts|tsx)$",
                args |-> <<"--fix", "--max-warnings=0">>] >>),
           Repo("https://github.com/pre-commit/mirrors-prettier",
                "v3.0.3", <<
               [id |-> "prettier",
                name |-> "Prettier - Code Formatting",
                files |-> "\\.(js|jsx|ts|tsx|json|css|scss|md)$",
                args |-> <<"--write">>] >>)>>
    ELSE <<>>

javascriptConfigs(tech, level) ==
    IF hasAnyTech(tech, {"react-frontend", "nodejs", "typescript", "react",
                         "vuejs", "angular"})
    THEN <<Repo("https://github.com/pre-commit/mirrors-eslint", "v8.50.0", <<
               [id |-> "eslint",
                name |-> "ESLint - JavaScript/TypeScript Linting",
                files |-> "\\.(js|jsx|ts|tsx)$",
                args |-> <<"--fix", "--max-warnings=0">>] >>)>>
         \o (IF GreaterEq(level, 2)
             THEN <<Repo("https://github.com/pre-commit/mirrors-prettier",
                         "v3.0.3", <<
                        [id |-> "prettier",
                         name |-> "Prettier - Code Formatting",
                         files |-> "\\.(js|jsx|ts|tsx|json|css|scss|md)$",
                         args |-> <<"--write">>] >>)>>
             ELSE <<>>)
    ELSE <<>>

\* Variant: bandit is added at level 3 only.
pythonConfigs_banditAtMax(tech, level) ==
    IF hasAnyTech(tech, {"python", "python-source", "python-modern"})
    THEN <<Repo("https://github.com/psf/black", "23.9.1", <<
               [id |-> "black", name |-> "Black - Python Code Formatting",
                language_version |-> "python3"] >>)>>
         \o (IF GreaterEq(level, 2)
             THEN <<Repo("https://github.com/pycqa/flake8", "6.1.0", <<
                        [id |-> "flake8", name |-> "Flake8 - Python Linting",
                         args |-> <<"--max-line-length=100",
                                    "--ignore=E203,W503">>] >>)>>
             ELSE <<>>)
         \o (IF GreaterEq(level, 3)
             THEN <<Repo("https://github.com/pycqa/bandit", "1.7.5", <<
                        [id |-> "bandit",
                         name |-> "Bandit - Python Security Analysis",
                         args |-> <<"-r", ".", "-f", "json", "-o",
                                    "bandit-report.json">>] >>)>>
             ELSE <<>>)
    ELSE <<>>

pythonConfigs(tech, level) ==
    IF hasAnyTech(tech, {"python", "python-source", "python-modern"})
    THEN <<Repo("https://github.com/psf/black", "23.9.1", <<
               [id |-> "black", name |-> "Black - Python Code Formatting",
                language_version |-> "python3"] >>)>>
         \o (IF GreaterEq(level, 2)
             THEN <<Repo("https://github.com/pycqa/flake8", "6.1.0", <<
                        [id |-> "flake8", name |-> "Flake8 - Python Linting",
                         args |-> <<"--max-line-length=100",
                                    "--ignore=E203,W503">>] >>),
                    Repo("https://github.com/pycqa/bandit", "1.7.5", <<
                        [id |-> "bandit",
                         name |-> "Bandit - Python Security Analysis",
                         args |-> <<"-r", ".", "-f", "json", "-o",
                                    "bandit-report.json">>] >>)>>
             ELSE <<>>)
    ELSE <<>>

\* Variant: the SQL rule is an else-branch of the Python rule.
sqlConfigs_elseIf(tech) ==
    IF hasAnyTech(tech, {"python", "python-source", "python-modern"})
    THEN <<>>
    ELSE IF hasAnyTech(tech, {"sql", "sql-enterprise"})
    THEN <<Repo("https://github.com/sqlfluff/sqlfluff", "2.3.2", <<
               [id |-> "sqlfluff-lint", name |-> "SQLFluff - SQL Linting",
                files |-> "\\.sql$", args |-> <<"--dialect=tsql">>] >>)>>
    ELSE <<>>

sqlConfigs(tech) ==
    IF hasAnyTech(tech, {"sql", "sql-enterprise"})
    THEN <<Repo("https://github.com/sqlfluff/sqlfluff", "2.3.2", <<
               [id |-> "sqlfluff-lint", name |-> "SQLFluff - SQL Linting",
                files |-> "\\.sql$", args |-> <<"--dialect=tsql">>] >>)>>
    ELSE <<>>

dotnetConfigs(tech) ==
    IF hasAnyTech(tech, {"dotnet", "aspnet"})
    THEN <<Local(<<
               [id |-> "dotnet-format",
                name |-> "dotnet format - .NET Code Formatting",
                entry |-> <<"dotnet format --verify-no-changes">>,
                language |-> "system",
                files |-> "\\.(cs|vb)$"] >>)>>
    ELSE <<>>

dockerConfigs(tech) ==
    IF hasAnyTech(tech, {"docker"})
    THEN <<Repo("https://github.com/hadolint/hadolint", "v2.12.0", <<
               [id |-> "hadolint-docker",
                name |-> "Hadolint - Dockerfile Linting",
                files |-> "Dockerfile.*"] >>)>>
    ELSE <<>>

techConfigs(tech, level) ==
    javascriptConfigs(tech, level) \o pythonConfigs(tech, level)
        \o sqlConfigs(tech) \o dotnetConfigs(tech) \o dockerConfigs(tech)

\* Variant: the technology groups are placed before the maximum group.
composeConfiguration_techFirst(tech, level, win) ==
    baseSecurity
        \o (IF GreaterEq(level, 2) THEN enhancedSecurity(win) ELSE <<>>)
        \o techConfigs(tech, level)
        \o (IF GreaterEq(level, 3) THEN maximumSecurity(win) ELSE <<>>)

\* Variant: the level-3 branch appends the enhanced group a second time.
composeConfiguration_cumulative(tech, level, win) ==
    baseSecurity
        \o (IF GreaterEq(level, 2) THEN enhancedSecurity(win) ELSE <<>>)
        \o (IF GreaterEq(level, 3)
            THEN enhancedSecurity(win) \o maximumSecurity(win) ELSE <<>>)
        \o techConfigs(tech, level)

\* Variant: the enhanced group is appended from level 1 on.
composeConfiguration_enhancedAtBasic(tech, level, win) ==
    baseSecurity
        \o (IF GreaterEq(level, 1) THEN enhancedSecurity(win) ELSE <<>>)
        \o (IF GreaterEq(level, 3) THEN maximumSecurity(win) ELSE <<>>)
        \o techConfigs(tech, level)

\* Variant: the maximum group is appended from level 2 on.
composeConfiguration_maximumAtStandard(tech, level, win) ==
    baseSecurity
        \o (IF GreaterEq(level, 2) THEN enhancedSecurity(win) ELSE <<>>)
        \o (IF GreaterEq(level, 2) THEN maximumSecurity(win) ELSE <<>>)
        \o techConfigs(tech, level)

\* Variant: at level 3 the maximum group takes the place of the enhanced one.
composeConfiguration_maximumReplaces(tech, level, win) ==
    baseSecurity
        \o (IF GreaterEq(level, 3) THEN maximumSecurity(win)
            ELSE IF GreaterEq(level, 2) THEN enhancedSecurity(win)
            ELSE <<>>)
        \o techConfigs(tech, level)

\* The assembly of finalConfig at the end of generateConfiguration.
composeConfiguration(tech, level, win) ==
    baseSecurity
        \o (IF GreaterEq(level, 2) THEN enhancedSecurity(win) ELSE <<>>)
        \o (IF GreaterEq(level, 3) THEN maximumSecurity(win) ELSE <<>>)
        \o techConfigs(tech, level)

----------------------------------------------------------------------------
(* Config renderer *)

Has(rec, field) == field \in DOMAIN rec

renderHook(hook) ==
    <<Line(6, "- id", <<hook.id>>)>>
        \o (IF Has(hook, "name") THEN <<Line(8, "name", <<hook.name>>)>>
            ELSE <<>>)
        \o (IF Has(hook, "entry") THEN <<Line(8, "entry", hook.entry)>>
            ELSE <<>>)
        \o (IF Has(hook, "language")
            THEN <<Line(8, "language", <<hook.language>>)>> ELSE <<>>)
        \o (IF Has(hook, "files") THEN <<Line(8, "files", <<hook.files>>)>>
            ELSE <<>>)
        \o (IF Has(hook, "exclude")
            THEN <<Line(8, "exclude", <<hook.exclude>>)>> ELSE <<>>)
        \o (IF Has(hook, "args")
            THEN <<Line(8, "args", <<>>)>>
                 \o [i \in 1..Len(hook.args) |-> Line(10, "-", <<hook.args[i]>>)]
            ELSE <<>>)
        \o (IF Has(hook, "language_version")
            THEN <<Line(8, "language_version", <<hook.language_version>>)>>
            ELSE <<>>)

RECURSIVE renderHooks(_, _)
renderHooks(hooks, i) ==
    IF i > Len(hooks) THEN <<>>
    ELSE renderHook(hooks[i]) \o renderHooks(hooks, i + 1)

renderRepo(repo) ==
    <<Line(2, "- repo", <<repo.repo>>)>>
        \o (IF Has(repo, "rev") THEN <<Line(4, "rev", <<repo.rev>>)>>
            ELSE <<>>)
        \o <<Line(4, "hooks", <<>>)>>
        \o renderHooks(repo.hooks, 1)
        \o <<Line(0, "", <<>>)>>

\* Variant: the repo entries are rendered last to first.
RECURSIVE renderRepos_reversed(_, _)
renderRepos_reversed(repos, i) ==
    IF i > Len(repos) THEN <<>>
    ELSE renderRepos_reversed(repos, i + 1) \o renderRepo(repos[i])

RECURSIVE renderRepos(_, _)
renderRepos(repos, i) ==
    IF i > Len(repos) THEN <<>>
    ELSE renderRepo(repos[i]) \o renderRepos(repos, i + 1)

generateYAMLConfig(repos, tech) ==
    << Line(0, "# Universal Smart Pre-commit Configuration", <<>>),
       Line(0, "# Generated for comprehensive enterprise-grade code quality", <<>>),
       Line(0, "# Security: Gitleaks, TruffleHog, Bandit, detect-secrets", <<>>),
       Line(0, "# AI Detection: Emoji patterns, encoded content, digital signatures", <<>>),
       Line(0, "# Vulnerability: Package scanning, suspicious patterns", <<>>),
       Line(0, "# Quality: ESLint, Prettier, Black, SQLFluff", <<>>),
       Line(0, "# Technologies", tech),
       Line(0, "", <<>>),
       Line(0, "repos", <<>>) >>
        \o renderRepos(repos, 1)

baseTools ==
    <<"pre-commit>=3.5.0", "gitleaks>=8.18.0", "detect-secrets>=1.4.0",
      "safety>=2.3.5">>

enhancedTools ==
    <<"bandit[toml]>=1.7.5", "black>=23.9.1", "flake8>=6.1.0",
      "sqlfluff>=2.3.2", "semgrep>=1.45.0", "checkov>=3.0.0">>

maximumTools ==
    <<"mypy>=1.6.0", "pylint>=3.0.0", "trufflehog>=3.63.0",
      "pip-audit>=2.6.1", "cyclonedx-bom>=4.0.0", "osv-scanner>=1.4.3",
      "vulndb>=1.0.0">>

\* Variant: the level-3 branch starts again from the base tools.
allTools_replace(level) ==
    IF GreaterEq(level, 3) THEN baseTools \o maximumTools
    ELSE baseTools \o (IF GreaterEq(level, 2) THEN enhancedTools ELSE <<>>)

allTools(level) ==
    baseTools
        \o (IF GreaterEq(level, 2) THEN enhancedTools ELSE <<>>)
        \o (IF GreaterEq(level, 3) THEN maximumTools ELSE <<>>)

\* The text generateRequirementsFile writes.
requirementsText(level) ==
    << Line(0, "# Universal Smart Pre-commit Requirements", <<>>),
       Line(0, "# Comprehensive enterprise security and quality tools", <<>>),
       Line(0, "# Includes vulnerability scanning and content analysis", <<>>),
       Line(0, "", <<>>) >>
        \o [i \in 1..Len(allTools(level)) |-> Line(0, "", <<allTools(level)[i]>>)]
        \o << Line(0, "", <<>>),
              Line(0, "# Additional security validation", <<>>),
              Line(0, "# Run: pip-audit --desc --output json", <<>>),
              Line(0, "# Run: safety check --json", <<>>),
              Line(0, "# Run: osv-scanner --lockfile requirements.txt", <<>>) >>

----------------------------------------------------------------------------
(* The run() driver *)

FIRST == "first"
SECOND == "second"
Invocations == {FIRST, SECOND}

Terminal == {"done", "exited", "failed"}

\* securityLevel before generateConfiguration has been called.
NotCalled == [nan |-> TRUE, n |-> -1]

Trees == {t \in SUBSET ProjectFiles : Cardinality(t) <= MaxFiles}

\* Lines a user may type at a prompt, trimmed, as sequences of characters.
Answers ==
    { <<>>, <<"1">>, <<"2">>, <<"3">>, <<"4">>, <<"y">>, <<"2", "x">> }

\* The input of the helpers: a nested directory with at most one failing
\* call, and the three manifests.
Disk(t, bad, manifests) == [tree |-> t, bad |-> bad, manifests |-> manifests]

ManifestPathSet == {ManifestPaths[i] : i \in DOMAIN ManifestPaths}

NoManifests == [path \in ManifestPathSet |-> NoManifest]

NoDisk == Disk({}, NoFailure, NoManifests)

\* The helper called, its maxDepth argument and what it returned.
Called(fn, maxDepth, files, reads, tags) ==
    [fn |-> fn, maxDepth |-> maxDepth, files |-> files, reads |-> reads,
     tags |-> tags]

NoCall == Called("none", 0, <<>>, <<>>, <<>>)

Init ==
    /\ tree \in Trees
    /\ pkgDeps \in SUBSET Dependencies
    /\ "package.json" \notin tree => pkgDeps = {}
    /\ isWindows \in BOOLEAN
    /\ fs \in [config : {Absent, Foreign}, requirements : {Absent, Foreign}]
    /\ pc = [p \in Invocations |-> "idle"]
    /\ argv = [p \in Invocations |->
                  [detectOnly |-> FALSE, interactive |-> FALSE]]
    /\ detectedTech = [p \in Invocations |-> <<>>]
    /\ securityLevel = [p \in Invocations |-> NotCalled]
    /\ finalConfig = [p \in Invocations |-> <<>>]
    /\ yamlContent = [p \in Invocations |-> <<>>]
    /\ seen = [p \in Invocations |-> {}]
    /\ written = [p \in Invocations |-> {}]
    /\ exitCode = [p \in Invocations |-> 0]
    /\ left = [p \in Invocations |-> fs]
    /\ disk = NoDisk
    /\ call = NoCall

\* What no step of run() changes: the project directory, the platform and
\* the state of the helpers run() does not reach.
Environment == <<tree, pkgDeps, isWindows, disk, call>>

\* The script is started: the constructor reads process.argv.
Invoke(p, detectOnly, interactive) ==
    /\ pc[p] = "idle"
    /\ argv' = [argv EXCEPT ![p] = [detectOnly |-> detectOnly,
                                    interactive |-> interactive]]
    /\ pc' = [pc EXCEPT ![p] = "run"]
    /\ UNCHANGED <<Environment, fs, detectedTech, securityLevel, finalConfig,
                   yamlContent, seen, written, exitCode, left>>

\* Variant: the interactive branch is tested before the detect-only exit.
AfterDetection_interactiveFirst(args) ==
    IF args.interactive THEN "ask_advanced"
    ELSE IF args.detectOnly THEN "exited"
    ELSE "quick"

\* The mode dispatch of run() after detection.
AfterDetection(args) ==
    IF args.detectOnly THEN "exited"
    ELSE IF args.interactive THEN "ask_advanced"
    ELSE "quick"

\* run(): detectTechnologies(), then the mode dispatch.  require("glob")
\* succeeds or throws, as the installation has it.
Run(p) ==
    /\ pc[p] = "run"
    /\ \E glob \in BOOLEAN :
           detectedTech' = [detectedTech EXCEPT ![p] =
               detectTechnologies(tree, fs, pkgDeps, glob)]
    /\ seen' = [seen EXCEPT ![p] = Entries(tree, fs)]
    /\ pc' = [pc EXCEPT ![p] = AfterDetection(argv[p])]
    /\ left' = [left EXCEPT ![p] = fs]
    /\ UNCHANGED <<Environment, fs, argv, securityLevel, finalConfig,
                   yamlContent, written, exitCode>>

\* Variant: the first answer is saved to the configuration file at once.
AskAdvanced_savesAnswer(p, answer) ==
    /\ pc[p] = "ask_advanced"
    /\ pc' = [pc EXCEPT ![p] = "ask_team"]
    /\ fs' = [fs EXCEPT !.config = File(<<Line(0, "# advanced", answer)>>)]
    /\ written' = [written EXCEPT ![p] = @ \cup {CONFIG_FILE}]
    /\ UNCHANGED <<Environment, argv, detectedTech, securityLevel,
                   finalConfig, yamlContent, seen, exitCode, left>>

\* interactiveSetup(): the answer to the first prompt is not used.
AskAdvanced(p, answer) ==
    /\ pc[p] = "ask_advanced"
    /\ pc' = [pc EXCEPT ![p] = "ask_team"]
    /\ UNCHANGED <<Environment, fs, argv, detectedTech, securityLevel,
                   finalConfig, yamlContent, seen, written, exitCode, left>>

\* Variant: a small team gets the basic level without the third prompt.
AskTeamSize_usesAnswer(p, answer) ==
    /\ pc[p] = "ask_team"
    /\ IF answer = <<"1">>
       THEN /\ securityLevel' = [securityLevel EXCEPT ![p] = Num(1)]
            /\ finalConfig' = [finalConfig EXCEPT ![p] =
                   composeConfiguration(detectedTech[p], Num(1), isWindows)]
            /\ yamlContent' = [yamlContent EXCEPT ![p] =
                   generateYAMLConfig(finalConfig'[p], detectedTech[p])]
            /\ pc' = [pc EXCEPT ![p] = "write_config"]
            /\ UNCHANGED <<Environment, fs, argv, detectedTech, seen,
                           written, exitCode, left>>
       ELSE /\ pc' = [pc EXCEPT ![p] = "ask_level"]
            /\ UNCHANGED <<Environment, fs, argv, detectedTech,
                           securityLevel, finalConfig, yamlContent, seen,
                           written, exitCode, left>>

\* interactiveSetup(): the answer to the second prompt is not used.
AskTeamSize(p, answer) ==
    /\ pc[p] = "ask_team"
    /\ pc' = [pc EXCEPT ![p] = "ask_level"]
    /\ UNCHANGED <<Environment, fs, argv, detectedTech, securityLevel,
                   finalConfig, yamlContent, seen, written, exitCode, left>>

\* generateConfiguration(level) up to the first write: the configuration is
\* composed and rendered.
Generate(p, level) ==
    /\ securityLevel' = [securityLevel EXCEPT ![p] = level]
    /\ finalConfig' = [finalConfig EXCEPT ![p] =
           composeConfiguration(detectedTech[p], level, isWindows)]
    /\ yamlContent' = [yamlContent EXCEPT ![p] =
           generateYAMLConfig(finalConfig'[p], detectedTech[p])]
    /\ pc' = [pc EXCEPT ![p] = "write_config"]
    /\ UNCHANGED <<Environment, fs, argv, detectedTech, seen, written,
                   exitCode, left>>

\* interactiveSetup(): generateConfiguration(parseInt(securityLevel)).
AskSecurityLevel(p, answer) ==
    /\ pc[p] = "ask_level"
    /\ Generate(p, parseInt(answer))

\* Variant: the quick mode composes at the standard level.
quickSetup_standard(p) ==
    /\ pc[p] = "quick"
    /\ Generate(p, Num(2))

\* quickSetup(): generateConfiguration(3).
quickSetup(p) ==
    /\ pc[p] = "quick"
    /\ Generate(p, Num(3))

\* An exception of fs.writeFileSync is not caught: run() is rejected and
\* the process ends with status 1.
Throw(p) ==
    /\ pc' = [pc EXCEPT ![p] = "failed"]
    /\ exitCode' = [exitCode EXCEPT ![p] = 1]
    /\ left' = [left EXCEPT ![p] = fs]
    /\ UNCHANGED <<Environment, fs, argv, detectedTech, securityLevel,
                   finalConfig, yamlContent, seen, written>>

\* Variant: the text is appended to what the file holds (appendFileSync).
writeFileSync_append(files, name, text) ==
    [files EXCEPT ![name] = File(files[name].text \o text)]

\* fs.writeFileSync(path, text): the file holds text afterwards.
writeFileSync(files, name, text) == [files EXCEPT ![name] = File(text)]

\* fs.writeFileSync(".pre-commit-config.yaml", yamlContent)
WriteConfig(p, ok) ==
    /\ pc[p] = "write_config"
    /\ IF ok
       THEN /\ fs' = writeFileSync(fs, "config", yamlContent[p])
            /\ written' = [written EXCEPT ![p] = @ \cup {CONFIG_FILE}]
            /\ pc' = [pc EXCEPT ![p] = "write_requirements"]
            /\ UNCHANGED <<Environment, argv, detectedTech, securityLevel,
                           finalConfig, yamlContent, seen, exitCode, left>>
       ELSE Throw(p)

\* generateRequirementsFile(securityLevel), then showResults() and the
\* return of run().
WriteRequirements(p, ok) ==
    /\ pc[p] = "write_requirements"
    /\ IF ok
       THEN /\ fs' = writeFileSync(fs, "requirements",
                                   requirementsText(securityLevel[p]))
            /\ written' = [written EXCEPT ![p] = @ \cup {REQUIREMENTS_FILE}]
            /\ pc' = [pc EXCEPT ![p] = "done"]
            /\ left' = [left EXCEPT ![p] = fs']
            /\ UNCHANGED <<Environment, argv, detectedTech, securityLevel,
                           finalConfig, yamlContent, seen, exitCode>>
       ELSE Throw(p)

\* The steps of a started invocation.
Step(p) ==
    \/ Run(p)
    \/ \E a \in Answers : AskAdvanced(p, a)
    \/ \E a \in Answers : AskTeamSize(p, a)
    \/ \E a \in Answers : AskSecurityLevel(p, a)
    \/ quickSetup(p)
    \/ \E ok \in BOOLEAN : WriteConfig(p, ok)
    \/ \E ok \in BOOLEAN : WriteRequirements(p, ok)

\* One invocation in a project directory.
Next ==
    \/ \E d \in BOOLEAN, i \in BOOLEAN : Invoke(FIRST, d, i)
    \/ Step(FIRST)

Spec == Init /\ [][Next]_vars

\* The script is started again after the first invocation has ended.
Reinvoke(detectOnly, interactive) ==
    /\ pc[FIRST] \in Terminal
    /\ Invoke(SECOND, detectOnly, interactive)

NextRerun ==
    \/ Next
    \/ \E d \in BOOLEAN, i \in BOOLEAN : Reinvoke(d, i)
    \/ Step(SECOND)

SpecRerun == Init /\ [][NextRerun]_vars

----------------------------------------------------------------------------
(* Interruption and concurrent invocations *)

\* The positions at which an invocation waits for a line on standard input.
Prompts == {"ask_advanced", "ask_team", "ask_level"}

\* The process is interrupted (SIGINT) while rl.question waits for a line:
\* it ends with status 128 + 2 and nothing after the prompt runs.
Interrupt(p) ==
    /\ pc[p] \in Prompts
    /\ pc' = [pc EXCEPT ![p] = "interrupted"]
    /\ exitCode' = [exitCode EXCEPT ![p] = 130]
    /\ left' = [left EXCEPT ![p] = fs]
    /\ UNCHANGED <<Environment, fs, argv, detectedTech, securityLevel,
                   finalConfig, yamlContent, seen, written>>

\* One invocation that may be interrupted at a prompt.
NextInterrupt ==
    \/ Next
    \/ Interrupt(FIRST)

SpecInterrupt == Init /\ [][NextInterrupt]_vars

\* Two invocations in the same directory at the same time, both able to
\* write their files: their steps interleave at the file-system calls.  The
\* one called FIRST is the one that starts first.
StartConcurrently(p, detectOnly, interactive) ==
    /\ p = SECOND => pc[FIRST] # "idle"
    /\ Invoke(p, detectOnly, interactive)

NextConcurrent ==
    \E p \in Invocations :
        \/ \E d \in BOOLEAN, i \in BOOLEAN : StartConcurrently(p, d, i)
        \/ Run(p)
        \/ \E a \in Answers : AskAdvanced(p, a)
        \/ \E a \in Answers : AskTeamSize(p, a)
        \/ \E a \in Answers : AskSecurityLevel(p, a)
        \/ quickSetup(p)
        \/ WriteConfig(p, TRUE)
        \/ WriteRequirements(p, TRUE)

\* Both start in a directory that holds neither output file yet.
InitConcurrent ==
    /\ Init
    /\ fs = [config |-> Absent, requirements |-> Absent]

SpecConcurrent == InitConcurrent /\ [][NextConcurrent]_vars

----------------------------------------------------------------------------
(* The helpers run() does not reach, applied to their inputs *)

\* The calls of the model that may fail on a tree: readdir on one of its
\* directories or stat on one of its nodes.
Failures(t) ==
    {NoFailure}
        \cup {Failure("readdir", node) : node \in t \cap DirNodes}
        \cup {Failure("stat", node) : node \in t}

RunState ==
    <<tree, pkgDeps, isWindows, fs, pc, argv, detectedTech, securityLevel,
      finalConfig, yamlContent, seen, written, exitCode, left>>

\* No invocation of the script; a nested directory with at most one failing
\* call, or a set of manifests.
InitHelpers ==
    /\ tree = {}
    /\ pkgDeps = {}
    /\ isWindows = FALSE
    /\ fs = [config |-> Absent, requirements |-> Absent]
    /\ pc = [p \in Invocations |-> "idle"]
    /\ argv = [p \in Invocations |->
                  [detectOnly |-> FALSE, interactive |-> FALSE]]
    /\ detectedTech = [p \in Invocations |-> <<>>]
    /\ securityLevel = [p \in Invocations |-> NotCalled]
    /\ finalConfig = [p \in Invocations |-> <<>>]
    /\ yamlContent = [p \in Invocations |-> <<>>]
    /\ seen = [p \in Invocations |-> {}]
    /\ written = [p \in Invocations |-> {}]
    /\ exitCode = [p \in Invocations |-> 0]
    /\ left = [p \in Invocations |-> fs]
    /\ \/ \E t \in Subtrees : \E bad \in Failures(t) :
              disk = Disk(t, bad, NoManifests)
       \/ \E manifests \in [ManifestPathSet -> ManifestStates] :
              disk = Disk({}, NoFailure, manifests)
    /\ call = NoCall

\* scanSourceDirectories: this.getAllFiles(dir)
CallGetAllFiles ==
    /\ call = NoCall
    /\ LET got == getAllFiles(<<>>, Collected(<<>>, <<>>), disk.tree,
                              disk.bad)
       IN  call' = Called("getAllFiles", 0, got.files, got.reads, <<>>)
    /\ UNCHANGED <<RunState, disk>>

\* hasFiles: this.findMatchingFiles(".", pattern, 3), and the same call
\* with a smaller maxDepth.
CallFindMatchingFiles(maxDepth) ==
    /\ call = NoCall
    /\ LET got == findMatchingFiles(<<>>, DoubleWildcard, maxDepth, 0,
                                    disk.tree, disk.bad)
       IN  call' = Called("findMatchingFiles", maxDepth, got.files,
                          got.reads, <<>>)
    /\ UNCHANGED <<RunState, disk>>

CallScanDependencies ==
    /\ call = NoCall
    /\ call' = Called("scanDependencies", 0, <<>>, <<>>,
                      scanDependencies(<<>>, disk.manifests))
    /\ UNCHANGED <<RunState, disk>>

NextHelpers ==
    \/ CallGetAllFiles
    \/ \E maxDepth \in 1..HasFilesMaxDepth : CallFindMatchingFiles(maxDepth)
    \/ CallScanDependencies

SpecHelpers == InitHelpers /\ [][NextHelpers]_vars

----------------------------------------------------------------------------
(* Properties *)

ToSet(seq) == {seq[i] : i \in DOMAIN seq}

NoDuplicates(seq) == \A i, j \in DOMAIN seq : seq[i] = seq[j] => i = j

RECURSIVE HookIdsFrom(_, _)
HookIdsFrom(repos, i) ==
    IF i > Len(repos) THEN <<>>
    ELSE [k \in 1..Len(repos[i].hooks) |-> repos[i].hooks[k].id]
             \o HookIdsFrom(repos, i + 1)

\* The hook ids of a composed configuration, in order.
HookIds(repos) == HookIdsFrom(repos, 1)

\* The values of the lines of a text that carry the given key, in order.
ValuesOf(text, key) ==
    LET picked == SelectSeq(text, LAMBDA line : line.key = key
                                                  /\ Len(line.value) = 1)
    IN  [k \in 1..Len(picked) |-> picked[k].value[1]]

\* The hook ids of a rendered configuration document, in order.
RenderedIds(text) == ValuesOf(text, "- id")

\* The constraint lines of a tool manifest, in order.
Constraints(text) == ValuesOf(text, "")

\* generateConfiguration has composed the configuration of invocation p.
Composed(p) ==
    pc[p] \in {"write_config", "write_requirements", "done", "failed"}

\* detectTechnologies has run in invocation p.
Detected(p) == pc[p] \notin {"idle", "run"}

IsLevel(level, n) == ~level.nan /\ level.n = n

BaseIds == {"gitleaks", "trufflehog"}

EnhancedIds ==
    {"detect-private-key", "check-merge-conflict", "check-added-large-files",
     "end-of-file-fixer", "trailing-whitespace", "detect-secrets",
     "package-vulnerability-scan"}

MaximumIds ==
    {"enterprise-patterns", "console-log-detector", "emoji-ai-detector",
     "encoding-cipher-detector", "digital-signature-detector",
     "suspicious-strings-detector"}

\* Position of the group an id belongs to: base, enhanced, maximum,
\* technology-specific.
GroupRank(id) ==
    IF id \in BaseIds THEN 1
    ELSE IF id \in EnhancedIds THEN 2
    ELSE IF id \in MaximumIds THEN 3
    ELSE 4

\* C1 -- Determinism: two invocations in the same mode, with the same
\* security level, on the same platform, that found the same directory
\* entries leave byte-identical output files and render the same document.
C1_Determinism ==
    ( /\ pc[FIRST] = "done" /\ pc[SECOND] = "done"
      /\ argv[FIRST] = argv[SECOND]
      /\ securityLevel[FIRST] = securityLevel[SECOND]
      /\ seen[FIRST] = seen[SECOND] )
    => /\ left[FIRST] = left[SECOND]
       /\ yamlContent[FIRST] = yamlContent[SECOND]

C1_Witness ==
    /\ pc[FIRST] = "done" /\ pc[SECOND] = "done"
    /\ argv[FIRST] = argv[SECOND]
    /\ argv[FIRST].interactive
    /\ IsLevel(securityLevel[FIRST], 2)
    /\ securityLevel[FIRST] = securityLevel[SECOND]
    /\ seen[FIRST] = seen[SECOND]
    /\ "package.json" \in tree

\* C2 -- Idempotence of a full run: a second invocation in the same mode
\* and with the same security level leaves both output files as the first
\* left them and detects the same tags.
C2_SecondRunChangesNothing ==
    ( /\ pc[FIRST] = "done" /\ pc[SECOND] = "done"
      /\ argv[FIRST] = argv[SECOND]
      /\ securityLevel[FIRST] = securityLevel[SECOND] )
    => /\ left[SECOND] = left[FIRST]
       /\ detectedTech[SECOND] = detectedTech[FIRST]

\* C3 -- Scenario D: no step of an invocation started with --detect-only
\* changes an output file, with or without --interactive; the invocation
\* only detects and exits.
C3_DetectOnlyNeverWrites ==
    [][\A p \in Invocations :
          (argv'[p].detectOnly /\ pc'[p] # pc[p])
          => /\ fs' = fs
             /\ written'[p] = {}
             /\ pc'[p] \in {"run", "exited"}]_vars

C3_Witness ==
    /\ argv[FIRST].detectOnly /\ argv[FIRST].interactive
    /\ pc[FIRST] = "exited"
    /\ Len(detectedTech[FIRST]) >= 3
    /\ exitCode[FIRST] = 0

\* C4 -- No partial artifact: an invocation that has ended has overwritten
\* both output files or neither, and one that failed to write ended with a
\* non-zero status.
C4_NoPartialArtifact ==
    \A p \in Invocations :
        pc[p] \in Terminal
        => /\ written[p] \in {{}, {CONFIG_FILE, REQUIREMENTS_FILE}}
           /\ pc[p] = "failed" => exitCode[p] # 0

\* C5 -- Ordering invariant: in the composed configuration the base entries
\* come first and every entry's group is no earlier than the group of the
\* entries before it (base, enhanced, maximum, technology-specific).
C5_GroupOrder ==
    \A p \in Invocations :
        Composed(p)
        => LET ids == HookIds(finalConfig[p])
           IN  /\ Len(ids) >= 2
               /\ SubSeq(ids, 1, 2) = <<"gitleaks", "trufflehog">>
               /\ \A i, j \in DOMAIN ids :
                      i < j => GroupRank(ids[i]) <= GroupRank(ids[j])

C5_Witness ==
    /\ pc[FIRST] = "done"
    /\ LET ids == HookIds(finalConfig[FIRST])
       IN  \A r \in 1..4 : \E i \in DOMAIN ids : GroupRank(ids[i]) = r

\* C6 -- No duplicate identifiers: no two hook entries of the rendered
\* configuration document share an id.
C6_NoDuplicateIds ==
    \A p \in Invocations :
        Composed(p) => NoDuplicates(RenderedIds(yamlContent[p]))

C6_Witness ==
    /\ pc[FIRST] = "done"
    /\ Len(RenderedIds(fs.config.text)) >= 20
    /\ RenderedIds(fs.config.text) = HookIds(finalConfig[FIRST])

\* C7 -- Manifest monotonicity: the manifest written at a level holds no
\* constraint twice, contains the manifest of every lower level and is
\* contained in the manifest of every higher level.
C7_ManifestMonotone ==
    \A p \in Invocations :
        ( /\ pc[p] = "done"
          /\ REQUIREMENTS_FILE \in written[p]
          /\ \E n \in 1..3 : IsLevel(securityLevel[p], n) )
        => LET mine == Constraints(left[p].requirements.text)
               at(n) == Constraints(requirementsText(Num(n)))
           IN  /\ NoDuplicates(mine)
               /\ \A n \in 1..3 :
                      /\ n <= securityLevel[p].n
                            => ToSet(at(n)) \subseteq ToSet(mine)
                      /\ n >= securityLevel[p].n
                            => ToSet(mine) \subseteq ToSet(at(n))

C7_Witness ==
    /\ pc[FIRST] = "done"
    /\ IsLevel(securityLevel[FIRST], 3)
    /\ Len(Constraints(fs.requirements.text)) = 17
    /\ Len(Constraints(requirementsText(Num(1)))) = 4
    /\ Len(Constraints(requirementsText(Num(2)))) = 10

\* Entries that no detection rule names or matches.
Unrecognised == {"README.md", CONFIG_FILE}

\* C8 -- Completeness floor: when no detection rule fires the tag set is
\* exactly {generic}, and the configuration composed from it contains
\* gitleaks and trufflehog whatever the security level.
C8_CompletenessFloor ==
    \A p \in Invocations :
        (Detected(p) /\ seen[p] \subseteq Unrecognised)
        => /\ detectedTech[p] = <<"generic">>
           /\ Composed(p)
                 => BaseIds \subseteq ToSet(HookIds(finalConfig[p]))

C8_Witness ==
    /\ pc[FIRST] = "done"
    /\ seen[FIRST] = {"README.md"}
    /\ IsLevel(securityLevel[FIRST], 1)
    /\ detectedTech[FIRST] = <<"generic">>

\* The hooks of a composed configuration with the given id.
HooksWithId(repos, id) ==
    {h \in UNION {ToSet(repos[i].hooks) : i \in DOMAIN repos} : h.id = id}

\* C9 -- Scenario B: with a package.json declaring react and a
\* tsconfig.json, the tags include nodejs, typescript and react, and the
\* configuration has exactly one eslint entry, for .js, .jsx, .ts and .tsx.
C9_ScenarioB ==
    \A p \in Invocations :
        ( /\ Detected(p)
          /\ {"package.json", "tsconfig.json"} \subseteq tree
          /\ "react" \in pkgDeps )
        => /\ {"nodejs", "typescript", "react"} \subseteq ToSet(detectedTech[p])
           /\ Composed(p)
                 => /\ Len(SelectSeq(HookIds(finalConfig[p]),
                                     LAMBDA id : id = "eslint")) = 1
                    /\ \A h \in HooksWithId(finalConfig[p], "eslint") :
                           h.files = "\\.(js|jsx|ts|tsx)$"

\* C10 -- Scenario A: with requirements.txt as the only entry the tag set
\* is {python}, and at level 2 the configuration has black and bandit and
\* neither eslint nor prettier.
C10_ScenarioA ==
    \A p \in Invocations :
        (Detected(p) /\ seen[p] = {"requirements.txt"})
        => /\ detectedTech[p] = <<"python">>
           /\ (Composed(p) /\ IsLevel(securityLevel[p], 2))
                 => LET ids == ToSet(HookIds(finalConfig[p]))
                    IN  /\ {"black", "bandit"} \subseteq ids
                        /\ ids \cap {"eslint", "prettier"} = {}

C10_Witness ==
    /\ pc[FIRST] = "done"
    /\ seen[FIRST] = {"requirements.txt"}
    /\ IsLevel(securityLevel[FIRST], 2)
    /\ "bandit" \in ToSet(RenderedIds(fs.config.text))

\* The tags each technology rule of the composer asks for.
JavaScriptTags ==
    {"react-frontend", "nodejs", "typescript", "react", "vuejs", "angular"}

PythonTags == {"python", "python-source", "python-modern"}

SqlTags == {"sql", "sql-enterprise"}

DotnetTags == {"dotnet", "aspnet"}

DockerTags == {"docker"}

Tagged(p, tags) == ToSet(detectedTech[p]) \cap tags # {}

\* C11 -- Scenario C: with requirements.txt and a *.sql file in the root
\* the configuration has both the Python group and sqlfluff-lint, and each
\* technology group is present exactly when its own tags are detected,
\* whatever the other rules did.
C11_ScenarioC ==
    \A p \in Invocations :
        Composed(p)
        => LET ids == ToSet(HookIds(finalConfig[p]))
           IN  /\ {"requirements.txt", "schema.sql"} \subseteq seen[p]
                     => {"black", "sqlfluff-lint"} \subseteq ids
               /\ "eslint" \in ids <=> Tagged(p, JavaScriptTags)
               /\ "black" \in ids <=> Tagged(p, PythonTags)
               /\ "sqlfluff-lint" \in ids <=> Tagged(p, SqlTags)
               /\ "dotnet-format" \in ids <=> Tagged(p, DotnetTags)
               /\ "hadolint-docker" \in ids <=> Tagged(p, DockerTags)

C11_Witness ==
    /\ pc[FIRST] = "done"
    /\ {"requirements.txt", "schema.sql"} \subseteq seen[FIRST]
    /\ {"black", "sqlfluff-lint"}
           \subseteq ToSet(RenderedIds(fs.config.text))

\* The ids the technology rules add whatever the level, for the tags of p.
UngatedIds(p) ==
    (IF Tagged(p, JavaScriptTags) THEN {"eslint"} ELSE {})
        \cup (IF Tagged(p, PythonTags) THEN {"black"} ELSE {})
        \cup (IF Tagged(p, SqlTags) THEN {"sqlfluff-lint"} ELSE {})
        \cup (IF Tagged(p, DotnetTags) THEN {"dotnet-format"} ELSE {})
        \cup (IF Tagged(p, DockerTags) THEN {"hadolint-docker"} ELSE {})

\* C12 -- Scenario E: at level 1 the configuration holds exactly the base
\* group and the ungated technology entries of the detected tags, and no
\* enhanced or maximum entry, in the composed list and in the document.
C12_ScenarioE ==
    \A p \in Invocations :
        (Composed(p) /\ IsLevel(securityLevel[p], 1))
        => LET ids == ToSet(HookIds(finalConfig[p]))
           IN  /\ ids = BaseIds \cup UngatedIds(p)
               /\ ids \cap (EnhancedIds \cup MaximumIds) = {}
               /\ NoDuplicates(HookIds(finalConfig[p]))
               /\ RenderedIds(yamlContent[p]) = HookIds(finalConfig[p])

C12_Witness ==
    /\ pc[FIRST] = "done"
    /\ IsLevel(securityLevel[FIRST], 1)
    /\ Tagged(FIRST, JavaScriptTags) /\ Tagged(FIRST, PythonTags)
    /\ ToSet(RenderedIds(fs.config.text))
           = BaseIds \cup {"eslint", "black"}

\* Invocation p was started with neither --interactive nor --detect-only.
QuickMode(p) == ~argv[p].detectOnly /\ ~argv[p].interactive

\* C13 -- Default quick mode always composes at level 3: the configuration
\* it composes and writes has the base, enhanced and maximum groups, and the
\* manifest it writes lists the level-3 tools (one invocation in the
\* directory).
C13_QuickModeIsMaximum ==
    \A p \in Invocations :
        (QuickMode(p) /\ Composed(p))
        => /\ IsLevel(securityLevel[p], 3)
           /\ BaseIds \cup EnhancedIds \cup MaximumIds
                  \subseteq ToSet(HookIds(finalConfig[p]))
           /\ CONFIG_FILE \in written[p]
                  => BaseIds \cup EnhancedIds \cup MaximumIds
                         \subseteq ToSet(RenderedIds(fs.config.text))
           /\ pc[p] = "done"
                  => ToSet(maximumTools)
                         \subseteq ToSet(Constraints(fs.requirements.text))

C13_Witness ==
    /\ pc[FIRST] = "done"
    /\ QuickMode(FIRST)
    /\ MaximumIds \subseteq ToSet(RenderedIds(fs.config.text))
    /\ "mypy>=1.6.0" \in ToSet(Constraints(fs.requirements.text))

\* The tags the project files of the model can produce, in the order of
\* Array.prototype.sort (by UTF-16 code units).
TagsInSortedOrder ==
    <<"docker", "generic", "nodejs", "python", "sql", "typescript">>

TagRank(tag) == CHOOSE i \in DOMAIN TagsInSortedOrder :
                    TagsInSortedOrder[i] = tag

\* The tags listed on the Technologies line of a rendered document.
TechnologiesHeader(text) ==
    (CHOOSE line \in ToSet(text) : line.key = "# Technologies").value

\* C14 -- The tags on the Technologies line of the rendered configuration
\* document appear in sorted order.
C14_TagsSorted ==
    \A p \in Invocations :
        Composed(p)
        => LET tags == TechnologiesHeader(yamlContent[p])
           IN  \A i, j \in DOMAIN tags :
                   i < j => TagRank(tags[i]) < TagRank(tags[j])

\* C15 -- In every run that reaches the composer the security level given
\* to it is 1, 2 or 3, whatever was answered at the prompt.
C15_LevelInRange ==
    \A p \in Invocations :
        Composed(p)
        => /\ ~securityLevel[p].nan
           /\ securityLevel[p].n \in {1, 2, 3}

\* The content invocation p composed for each output file.
ConfigOf(p) == File(yamlContent[p])

ManifestOf(p) == File(requirementsText(securityLevel[p]))

BothDone == pc[FIRST] = "done" /\ pc[SECOND] = "done"

BeforeWriting == {"idle", "run"} \cup Prompts

\* C17 -- In interactive mode no output file is written before all three
\* prompts are answered and the configuration is composed: no step taken
\* before the write step changes a file, and an invocation interrupted at a
\* prompt has written nothing and leaves both files as they were when it
\* started; the first file written is the whole composed document.
C17_NoWriteBeforeComposed ==
    [][ /\ \A p \in Invocations :
               /\ (pc[p] \in BeforeWriting /\ pc'[p] # pc[p])
                      => (fs' = fs /\ written'[p] = {})
               /\ pc'[p] = "interrupted"
                      => (fs' = left[p] /\ written'[p] = {})
        /\ fs' # fs
               => \E p \in Invocations :
                      /\ pc[p] \in {"write_config", "write_requirements"}
                      /\ fs'.config = ConfigOf(p) ]_vars

C17_Witness ==
    /\ pc[FIRST] = "interrupted"
    /\ argv[FIRST].interactive
    /\ fs.config = Foreign
    /\ written[FIRST] = {}

\* The tags detected in the directory of the current state after one more
\* entry (a file or a directory), output file or dependency is added.
AfterAddingEntry(entry, glob) ==
    ToSet(detectTechnologies(tree \cup {entry}, fs, pkgDeps, glob))

AfterAddingOutput(name, glob) ==
    ToSet(detectTechnologies(tree, [fs EXCEPT ![name] = Foreign], pkgDeps,
                             glob))

AfterAddingDependency(dep, glob) ==
    ToSet(detectTechnologies(tree, fs, pkgDeps \cup {dep}, glob))

\* Entries that may be added: the project files and a directory.
Addable == ProjectFiles \cup {"terraform"}

\* Every tag of the set kept is in each set the directory can yield after
\* one addition.
KeptAfterAddition(kept) ==
    \A glob \in BOOLEAN :
        /\ \A entry \in Addable : kept \subseteq AfterAddingEntry(entry, glob)
        /\ \A name \in {"config", "requirements"} :
               kept \subseteq AfterAddingOutput(name, glob)
        /\ \A dep \in Dependencies :
               kept \subseteq AfterAddingDependency(dep, glob)

\* Invocation p has just detected the tags of the directory as it is now.
DetectedHere(p) == pc[p] \in {"exited", "quick", "ask_advanced"}

\* C18 -- Classification is monotone: adding a file, a directory or a
\* dependency to the project never removes a tag from the tag set.
C18_Monotone ==
    \A p \in Invocations :
        DetectedHere(p) => KeptAfterAddition(ToSet(detectedTech[p]))

\* C18 (amended) -- Adding a file, a directory or a dependency to the
\* project never removes a tag other than generic from the tag set.
C18_MonotoneButGeneric ==
    \A p \in Invocations :
        DetectedHere(p)
        => KeptAfterAddition(ToSet(detectedTech[p]) \ {"generic"})

C18_Witness ==
    /\ DetectedHere(FIRST)
    /\ detectedTech[FIRST] = <<"nodejs">>
    /\ AfterAddingEntry("tsconfig.json", TRUE) = {"nodejs", "typescript"}
    /\ AfterAddingEntry("terraform", FALSE) = {"nodejs", "terraform"}

\* The level of invocation p is one of the three offered levels.
OfferedLevel(p) == ~securityLevel[p].nan /\ securityLevel[p].n \in {1, 2, 3}

\* Every id of the group is composed, or none is.
AllOf(group, ids) == group \subseteq ids

NoneOf(group, ids) == group \cap ids = {}

\* C19 -- Security-level gating: at a level in {1,2,3} the enhanced entries
\* are all present at level 2 and 3 and absent at level 1, and the six
\* maximum entries are all present at level 3 and absent at levels 1 and 2.
C19_LevelGating ==
    \A p \in Invocations :
        (Composed(p) /\ OfferedLevel(p))
        => LET ids == ToSet(RenderedIds(yamlContent[p]))
               level == securityLevel[p].n
           IN  /\ Cardinality(MaximumIds) = 6
               /\ IF level >= 2 THEN AllOf(EnhancedIds, ids)
                  ELSE NoneOf(EnhancedIds, ids)
               /\ IF level = 3 THEN AllOf(MaximumIds, ids)
                  ELSE NoneOf(MaximumIds, ids)

C19_Witness ==
    /\ pc[FIRST] = "done"
    /\ IsLevel(securityLevel[FIRST], 2)
    /\ AllOf(EnhancedIds, ToSet(RenderedIds(fs.config.text)))
    /\ NoneOf(MaximumIds, ToSet(RenderedIds(fs.config.text)))

\* C20 -- Technology sub-tool gating: with a JavaScript/TypeScript tag
\* eslint is present at levels 1 to 3 and prettier at levels 2 and 3 only;
\* with a Python tag black is present at levels 1 to 3 and flake8 and bandit
\* at levels 2 and 3 only.
C20_SubToolGating ==
    \A p \in Invocations :
        (Composed(p) /\ OfferedLevel(p))
        => LET ids == ToSet(RenderedIds(yamlContent[p]))
               level == securityLevel[p].n
           IN  /\ Tagged(p, JavaScriptTags)
                     => /\ "eslint" \in ids
                        /\ "prettier" \in ids <=> level >= 2
               /\ Tagged(p, PythonTags)
                     => /\ "black" \in ids
                        /\ "flake8" \in ids <=> level >= 2
                        /\ "bandit" \in ids <=> level >= 2

C20_Witness ==
    /\ pc[FIRST] = "done"
    /\ IsLevel(securityLevel[FIRST], 1)
    /\ Tagged(FIRST, JavaScriptTags) /\ Tagged(FIRST, PythonTags)
    /\ {"eslint", "black"} \subseteq ToSet(RenderedIds(fs.config.text))
    /\ NoneOf({"prettier", "flake8", "bandit"},
              ToSet(RenderedIds(fs.config.text)))

\* The hook entries of a rendered document in order, each with the number
\* of the repo entry it stands under.
ParsedHooks(text) ==
    LET idLines == SelectSeq([i \in 1..Len(text) |-> i],
                             LAMBDA i : text[i].key = "- id")
        repoNumber(i) == Cardinality({j \in 1..i : text[j].key = "- repo"})
    IN  [k \in 1..Len(idLines) |->
             [repo |-> repoNumber(idLines[k]),
              id |-> text[idLines[k]].value[1]]]

\* The hooks of a composed configuration in order, each with the number of
\* its repo entry.
RECURSIVE ComposedHooks(_, _)
ComposedHooks(repos, r) ==
    IF r > Len(repos) THEN <<>>
    ELSE [k \in 1..Len(repos[r].hooks) |->
              [repo |-> r, id |-> repos[r].hooks[k].id]]
             \o ComposedHooks(repos, r + 1)

\* C21 -- The renderer preserves the composed order: the document has the
\* repo entries of the configuration in the same order and, under each, one
\* hook entry per hook in the same order, nothing added, dropped or moved.
C21_RenderPreservesOrder ==
    \A p \in Invocations :
        Composed(p)
        => /\ ValuesOf(yamlContent[p], "- repo")
                  = [r \in 1..Len(finalConfig[p]) |-> finalConfig[p][r].repo]
           /\ ParsedHooks(yamlContent[p])
                  = ComposedHooks(finalConfig[p], 1)

C21_Witness ==
    /\ pc[FIRST] = "done"
    /\ IsLevel(securityLevel[FIRST], 3)
    /\ Tagged(FIRST, PythonTags)
    /\ ParsedHooks(fs.config.text) = ComposedHooks(finalConfig[FIRST], 1)
    /\ Len(ParsedHooks(fs.config.text)) > Len(finalConfig[FIRST])

\* The fields the hook runtime's schema gives a hook, besides id.
SchemaHookFields == {"name", "entry", "language", "files", "exclude", "args"}

\* The lines that open an entry of a rendered document.
EntryLines(text, key) == {i \in DOMAIN text : text[i].key = key}

\* The line after the last line of the entry that opens at line i.
EntryEnd(text, i) ==
    LET later == {j \in (i + 1)..Len(text) :
                      text[j].key \in {"- repo", "- id"}}
    IN  IF later = {} THEN Len(text) + 1
        ELSE CHOOSE j \in later : \A k \in later : j <= k

\* The keys of the lines of the given indentation inside the entry at i.
FieldsAt(text, i, indent) ==
    {text[j].key : j \in {k \in (i + 1)..(EntryEnd(text, i) - 1) :
                              text[k].indent = indent}}

\* The repo line a hook line stands under.
RepoLineOf(text, i) ==
    CHOOSE r \in EntryLines(text, "- repo") :
        /\ r < i
        /\ \A q \in EntryLines(text, "- repo") : q < i => q <= r

\* C22 -- Every rendered entry conforms to the hook runtime's schema: a
\* repo entry has a reference and a non-empty hooks list and has a rev
\* exactly when it is not local; a hook has an id, a hook of a local repo
\* has name, entry and language, and a hook has no field outside id, name,
\* entry, language, files, exclude and args.
C22_SchemaConformance ==
    \A p \in Invocations :
        Composed(p)
        => LET text == yamlContent[p]
           IN  /\ \A r \in EntryLines(text, "- repo") :
                      /\ Len(text[r].value) = 1
                      /\ "hooks" \in FieldsAt(text, r, 4)
                      /\ EntryEnd(text, r) <= Len(text)
                      /\ text[EntryEnd(text, r)].key = "- id"
                      /\ "rev" \in FieldsAt(text, r, 4)
                             <=> text[r].value # <<LOCAL_REPO>>
               /\ \A h \in EntryLines(text, "- id") :
                      /\ Len(text[h].value) = 1
                      /\ FieldsAt(text, h, 8) \subseteq SchemaHookFields
                      /\ text[RepoLineOf(text, h)].value = <<LOCAL_REPO>>
                             => {"name", "entry", "language"}
                                    \subseteq FieldsAt(text, h, 8)

\* The native commands of the hooks of a composed configuration.
NativeEntries(repos) ==
    {h.entry : h \in {g \in UNION {ToSet(repos[r].hooks) : r \in DOMAIN repos} :
                          Has(g, "entry") /\ Len(g.entry) >= 2}}

DetectorTypes ==
    {"js-files", "enterprise-patterns", "emoji-detector", "encoding-cipher",
     "digital-signatures", "suspicious-patterns"}

\* The pattern argument a rendered command was generated with.
PatternOf(entry) == IF entry[2] = "js-files" THEN entry[3] ELSE ""

\* C23 -- For every native detector command of the configuration, the
\* Windows and the Unix variant match the same: same pattern set, same
\* files scanned and excluded, same case sensitivity.
C23_SameMatchingSemantics ==
    \A p \in Invocations :
        Composed(p)
        => \A entry \in NativeEntries(finalConfig[p]) :
               entry[2] \in DetectorTypes
               => windowsMatching(entry[2], PatternOf(entry))
                      = unixMatching(entry[2], PatternOf(entry))

\* C24 -- Every native command of the configuration, on the platform it
\* was rendered for, exits non-zero when there are findings, and prints
\* its success message and exits zero when there are none.
C24_ExitConvention ==
    \A p \in Invocations :
        Composed(p)
        => \A entry \in NativeEntries(finalConfig[p]) :
               \A findings \in BOOLEAN :
                   LET outcome == IF isWindows
                                  THEN windowsOutcome(entry[2], findings)
                                  ELSE unixOutcome(entry[2], findings)
                   IN  IF findings THEN outcome.exit # 0
                       ELSE outcome.exit = 0 /\ outcome.success

\* Everything of invocation p that its output files are computed from.
OutputInputs(p) ==
    <<detectedTech[p], securityLevel[p], finalConfig[p], yamlContent[p],
      isWindows, fs, written[p]>>

\* C28 -- The written files depend only on the tags, the platform and the
\* security-level answer: answering the advanced-customization and the
\* team-size prompt only moves to the next prompt, whatever the answer, and
\* what is composed and written afterwards is computed from the tags, the
\* level and the platform alone.
C28_IgnoredAnswersDoNotMatter ==
    [][ \A p \in Invocations :
            /\ (pc[p] = "ask_advanced" /\ pc'[p] \notin {pc[p], "interrupted"})
                   => (pc'[p] = "ask_team"
                       /\ OutputInputs(p)' = OutputInputs(p))
            /\ (pc[p] = "ask_team" /\ pc'[p] \notin {pc[p], "interrupted"})
                   => (pc'[p] = "ask_level"
                       /\ OutputInputs(p)' = OutputInputs(p))
            /\ (pc[p] = "write_config" /\ pc'[p] = "write_requirements")
                   => fs'.config
                          = File(generateYAMLConfig(
                                composeConfiguration(detectedTech[p],
                                                     securityLevel[p],
                                                     isWindows),
                                detectedTech[p]))
            /\ (pc[p] = "write_requirements" /\ pc'[p] = "done")
                   => fs'.requirements
                          = File(requirementsText(securityLevel[p])) ]_vars

C28_Witness ==
    /\ pc[FIRST] = "done"
    /\ argv[FIRST].interactive
    /\ IsLevel(securityLevel[FIRST], 2)
    /\ fs.config = ConfigOf(FIRST)
    /\ fs.requirements = ManifestOf(FIRST)

\* a[i..] is a subsequence of b[j..]: a can be had from b by deleting
\* elements, the order of the rest kept.
RECURSIVE SubsequenceFrom(_, _, _, _)
SubsequenceFrom(a, i, b, j) ==
    IF i > Len(a) THEN TRUE
    ELSE IF j > Len(b) THEN FALSE
    ELSE IF a[i] = b[j] THEN SubsequenceFrom(a, i + 1, b, j + 1)
    ELSE SubsequenceFrom(a, i, b, j + 1)

IsSubsequence(a, b) == SubsequenceFrom(a, 1, b, 1)

\* The hook ids composed for the tags of invocation p at the given level.
IdsAtLevel(p, n) ==
    HookIds(composeConfiguration(detectedTech[p], Num(n), isWindows))

\* C29 -- The configuration grows with the level: for the tags of every
\* invocation and for L in {1,2}, the hook ids composed at level L are a
\* subsequence of the hook ids composed at level L + 1.
C29_GrowsWithLevel ==
    \A p \in Invocations :
        Composed(p)
        => \A n \in {1, 2} :
               /\ IsLevel(securityLevel[p], n)
                      => IsSubsequence(HookIds(finalConfig[p]),
                                       IdsAtLevel(p, n + 1))
               /\ IsLevel(securityLevel[p], n + 1)
                      => IsSubsequence(IdsAtLevel(p, n),
                                       HookIds(finalConfig[p]))

C29_Witness ==
    /\ pc[FIRST] = "done"
    /\ IsLevel(securityLevel[FIRST], 2)
    /\ Tagged(FIRST, JavaScriptTags)
    /\ IsSubsequence(IdsAtLevel(FIRST, 1), RenderedIds(fs.config.text))
    /\ IsSubsequence(RenderedIds(fs.config.text), IdsAtLevel(FIRST, 3))
    /\ Len(IdsAtLevel(FIRST, 1)) < Len(RenderedIds(fs.config.text))
    /\ Len(RenderedIds(fs.config.text)) < Len(IdsAtLevel(FIRST, 3))

\* The node is the entry the failing call is made on, or lies below it.
UnderFailure(node, bad) ==
    /\ bad.op # "none"
    /\ Len(bad.path) <= Len(node)
    /\ SubSeq(node, 1, Len(bad.path)) = bad.path

\* What the helper of the last call returns on the same tree when no call
\* fails.
WithoutFailure ==
    IF call.fn = "getAllFiles"
    THEN getAllFiles(<<>>, Collected(<<>>, <<>>), disk.tree, NoFailure)
    ELSE findMatchingFiles(<<>>, DoubleWildcard, call.maxDepth, 0, disk.tree,
                           NoFailure)

Traversals == {"getAllFiles", "findMatchingFiles"}

\* C25 -- A read or stat failure on one entry during a recursive traversal
\* skips only that entry: every file the traversal returns when nothing
\* fails, and that is neither the failing entry nor below it, is still
\* returned, the later siblings of the failing entry included.
C25_FailureSkipsOnlyThatEntry ==
    call.fn \in Traversals
    => \A file \in ToSet(WithoutFailure.files) :
           ~UnderFailure(file, disk.bad) => file \in ToSet(call.files)

\* Directories a traversal is to stay out of: version control, installed
\* packages, a virtual environment.
ExcludedDirectories == {".git", "node_modules", "venv"}

InExcluded(node) ==
    \E i \in 1..(Len(node) - 1) : node[i] \in ExcludedDirectories

\* C27 -- The recursive traversals never descend into an excluded
\* directory: none is listed and no file below one is returned.
C27_ExcludedNeverEntered ==
    call.fn \in Traversals
    => /\ \A file \in ToSet(call.files) : ~InExcluded(file)
       /\ \A dir \in ToSet(call.reads) :
              dir = <<>> \/ dir[Len(dir)] \notin ExcludedDirectories

\* C30 -- The double-wildcard lookup is depth-bounded and terminates:
\* findMatchingFiles with maxDepth d lists no directory d or more levels
\* below the start directory, returns no file from such a directory, and
\* lists each directory at most once.
C30_DepthBounded ==
    call.fn = "findMatchingFiles"
    => /\ \A dir \in ToSet(call.reads) : Len(dir) < call.maxDepth
       /\ \A file \in ToSet(call.files) : Len(Parent(file)) < call.maxDepth
       /\ NoDuplicates(call.reads)
       /\ ToSet(call.reads) \subseteq (disk.tree \cap DirNodes) \cup {<<>>}

C30_Witness ==
    /\ call.fn = "findMatchingFiles"
    /\ call.maxDepth = HasFilesMaxDepth
    /\ <<"lib", "pkg", "sub", "d.py">> \in disk.tree
    /\ disk.bad = NoFailure
    /\ call.files = << <<"lib", "b.py">>, <<"lib", "pkg", "c.py">> >>
    /\ call.reads = << <<>>, <<"lib">>, <<"lib", "pkg">> >>

\* The manifests with every malformed one taken away.
MalformedAbsent ==
    [path \in ManifestPathSet |->
         IF disk.manifests[path] = Malformed THEN NoManifest
         ELSE disk.manifests[path]]

\* C26 -- A malformed manifest contributes no dependency signal and does
\* not end the scan: the dependency tags are those of the same manifests
\* with the malformed ones absent.
C26_MalformedManifestIgnored ==
    call.fn = "scanDependencies"
    => /\ call.tags = scanDependencies(<<>>, MalformedAbsent)
       /\ readPackageJson(disk.manifests) = readPackageJson(MalformedAbsent)

C26_Witness ==
    /\ call.fn = "scanDependencies"
    /\ disk.manifests["package.json"] = Malformed
    /\ disk.manifests["client/package.json"] = Manifest({"react"})
    /\ disk.manifests["server/package.json"] = Manifest({"express"})
    /\ call.tags = <<"react", "express">>

====
